---- MODULE Spec2Model ----
(***************************************************************************)
(* Othello with a Mini-Max opponent: the game-state engine (gameLogic.js), *)
(* the heuristic (heuristic.js), the search engine (minimax.js) and the    *)
(* application state machine that drives them (App.jsx).                   *)
(*                                                                         *)
(* A board is the 8x8 array of the source, board[row][col], rows and       *)
(* columns numbered from 0.                                                *)
(***************************************************************************)
EXTENDS Integers, Sequences, FiniteSets, TLC

(***************************************************************************)
(* gameLogic.js: cell states, board size, the 8 directions.                *)
(***************************************************************************)
EMPTY == 0
BLACK == 1
WHITE == 2
BOARD_SIZE == 8

Idx == 0 .. (BOARD_SIZE - 1)

\* [dx, dy] pairs: top row, middle row, bottom row.
DIRECTION_OFFSETS ==
  << <<-1, -1>>, <<-1, 0>>, <<-1, 1>>,
     <<0, -1>>,             <<0, 1>>,
     <<1, -1>>,  <<1, 0>>,  <<1, 1>> >>

\* F applied to the value of v: v is evaluated once, before F.
Eval(F(_), v) == CHOOSE y \in {F(x) : x \in {v}} : TRUE

\* player === BLACK ? WHITE : BLACK
Opponent(player) == IF player = BLACK THEN WHITE ELSE BLACK

\* r >= 0 && r < BOARD_SIZE && c >= 0 && c < BOARD_SIZE
OnBoard(r, c) == r >= 0 /\ r < BOARD_SIZE /\ c >= 0 /\ c < BOARD_SIZE

\* The four center discs with the colors exchanged.
initializeBoardSwapped ==
  [r \in Idx |-> [c \in Idx |->
     IF (r = 3 /\ c = 3) \/ (r = 4 /\ c = 4) THEN BLACK
     ELSE IF (r = 3 /\ c = 4) \/ (r = 4 /\ c = 3) THEN WHITE
     ELSE EMPTY]]

initializeBoard ==
  [r \in Idx |-> [c \in Idx |->
     IF (r = 3 /\ c = 3) \/ (r = 4 /\ c = 4) THEN WHITE
     ELSE IF (r = 3 /\ c = 4) \/ (r = 4 /\ c = 3) THEN BLACK
     ELSE EMPTY]]

\* The while loop of isDirectionValid, from the cell (r, c) it has reached:
\* the loop runs over opponent cells, then the result is decided.
RECURSIVE DirectionWalk(_, _, _, _, _, _, _, _)
DirectionWalk(board, r, c, dx, dy, player, opponent, foundOpponent) ==
  IF OnBoard(r, c) /\ board[r][c] = opponent
  THEN DirectionWalk(board, r + dx, c + dy, dx, dy, player, opponent, TRUE)
  ELSE foundOpponent /\ OnBoard(r, c) /\ board[r][c] = player

\* isDirectionValid without the requirement that an opponent disc was found.
isDirectionValidNoOpponent(board, row, col, dx, dy, player, opponent) ==
  DirectionWalk(board, row + dx, col + dy, dx, dy, player, opponent, TRUE)

isDirectionValid(board, row, col, dx, dy, player, opponent) ==
  DirectionWalk(board, row + dx, col + dy, dx, dy, player, opponent, FALSE)

isValidMove(board, row, col, player) ==
  IF board[row][col] # EMPTY THEN FALSE
  ELSE \E i \in 1 .. Len(DIRECTION_OFFSETS) :
         isDirectionValid(board, row, col, DIRECTION_OFFSETS[i][1],
                          DIRECTION_OFFSETS[i][2], player, Opponent(player))

\* The cells in the order of the two nested loops of getValidMoves.
RowMajorCells ==
  [i \in 1 .. (BOARD_SIZE * BOARD_SIZE) |->
     << (i - 1) \div BOARD_SIZE, (i - 1) % BOARD_SIZE >>]

\* The inner loop of getValidMoves (over col) for one row, from col on.
RECURSIVE ValidMovesInRow(_, _, _, _)
ValidMovesInRow(board, player, row, col) ==
  IF col >= BOARD_SIZE THEN << >>
  ELSE (IF isValidMove(board, row, col, player) THEN << <<row, col>> >> ELSE << >>)
         \o ValidMovesInRow(board, player, row, col + 1)

\* The outer loop of getValidMoves (over row), from row on.
RECURSIVE ValidMovesFromRow(_, _, _)
ValidMovesFromRow(board, player, row) ==
  IF row >= BOARD_SIZE THEN << >>
  ELSE ValidMovesInRow(board, player, row, 0)
         \o ValidMovesFromRow(board, player, row + 1)

getValidMoves(board, player) == ValidMovesFromRow(board, player, 0)

(***************************************************************************)
(* makeMove works on JavaScript arrays: a board is an array of 8 row       *)
(* objects.  A heap maps row identities to row contents and a board        *)
(* object maps each row index to a row identity, so that copying and       *)
(* writing are what the code does and sharing of rows is visible.          *)
(***************************************************************************)
\* The rows of a board object, read through the heap.
Deref(heap, boardRef) == [r \in Idx |-> heap[boardRef[r]]]

\* A copy that shares the rows of board ([...board]).
CopyBoardShallow(heap, boardRef) == [heap |-> heap, board |-> boardRef]

\* board.map(row => [...row]): 8 fresh rows, each a copy of a row of board.
CopyBoard(heap, boardRef) ==
  [heap  |-> heap \o [i \in 1 .. BOARD_SIZE |-> heap[boardRef[i - 1]]],
   board |-> [r \in Idx |-> Len(heap) + r + 1]]

\* newBoard[r][c] = v
WriteCell(heap, boardRef, r, c, v) == [heap EXCEPT ![boardRef[r]][c] = v]

\* A flip of the first disc of a ray only.
FlipWalkOne(heap, newBoard, r, c, dx, dy, player, opponent) ==
  IF OnBoard(r, c) /\ heap[newBoard[r]][c] = opponent
  THEN WriteCell(heap, newBoard, r, c, player)
  ELSE heap

\* The inner while loop of makeMove: flips the opponent cells of one ray of
\* newBoard.
RECURSIVE FlipWalk(_, _, _, _, _, _, _, _)
FlipWalk(heap, newBoard, r, c, dx, dy, player, opponent) ==
  IF OnBoard(r, c) /\ heap[newBoard[r]][c] = opponent
  THEN FlipWalk(WriteCell(heap, newBoard, r, c, player), newBoard,
                r + dx, c + dy, dx, dy, player, opponent)
  ELSE heap

\* The for loop of makeMove over DIRECTION_OFFSETS, from direction i on: the
\* direction test reads board, the flips write newBoard.
RECURSIVE FlipDirections(_, _, _, _, _, _, _)
FlipDirections(heap, board, newBoard, row, col, player, i) ==
  IF i > Len(DIRECTION_OFFSETS) THEN heap
  ELSE LET dx == DIRECTION_OFFSETS[i][1]
           dy == DIRECTION_OFFSETS[i][2]
           opponent == Opponent(player)
           flipped ==
             IF isDirectionValid(Deref(heap, board), row, col, dx, dy, player, opponent)
             THEN FlipWalk(heap, newBoard, row + dx, col + dy, dx, dy, player, opponent)
             ELSE heap
           Rest(h) == FlipDirections(h, board, newBoard, row, col, player, i + 1)
       IN  Eval(Rest, flipped)

\* makeMove without the placement of the new disc.
makeMoveHeapNoPlace(heap, board, row, col, player) ==
  LET Flips(copy) ==
        [heap  |-> FlipDirections(copy.heap, board, copy.board, row, col, player, 1),
         board |-> copy.board]
  IN  Eval(Flips, CopyBoard(heap, board))

\* makeMove on the heap: the heap after the call and the board object
\* returned.
makeMoveHeap(heap, board, row, col, player) ==
  LET Flips(placed) ==
        [heap  |-> FlipDirections(placed.heap, board, placed.board, row, col, player, 1),
         board |-> placed.board]
      Place(copy) ==
        Eval(Flips, [heap  |-> WriteCell(copy.heap, copy.board, row, col, player),
                     board |-> copy.board])
  IN  Eval(Place, CopyBoard(heap, board))

\* A heap holding exactly the rows of a board value, and the board object
\* made of them.
HeapOf(board) == [i \in 1 .. BOARD_SIZE |-> board[i - 1]]
RefOf(board) == [r \in Idx |-> r + 1]

\* The board value makeMove returns.
makeMove(board, row, col, player) ==
  LET Result(res) == [r \in Idx |-> [c \in Idx |-> res.heap[res.board[r]][c]]]
  IN  Eval(Result, makeMoveHeap(HeapOf(board), RefOf(board), row, col, player))

\* A terminal test that looks at the moves of currentPlayer only.
isGameOverOneSided(board, currentPlayer) ==
  Len(getValidMoves(board, currentPlayer)) = 0

isGameOver(board, currentPlayer) ==
  IF Len(getValidMoves(board, currentPlayer)) > 0 THEN FALSE
  ELSE Len(getValidMoves(board, Opponent(currentPlayer))) = 0

\* Number of cells of the board holding v (the counting loops of
\* calculateScore, getDiscDifference and countPieces).
CountCells(board, v) ==
  Cardinality({cell \in Idx \X Idx : board[cell[1]][cell[2]] = v})

\* The two counts exchanged.
calculateScoreSwapped(board) ==
  [black |-> CountCells(board, WHITE), white |-> CountCells(board, BLACK)]

calculateScore(board) ==
  [black |-> CountCells(board, BLACK), white |-> CountCells(board, WHITE)]

\* null: a value that is no color and no score.
Null == -2000000

getWinner(board) ==
  LET s == calculateScore(board)
  IN  IF s.black > s.white THEN BLACK
      ELSE IF s.white > s.black THEN WHITE
      ELSE Null

(***************************************************************************)
(* heuristic.js                                                            *)
(***************************************************************************)
\* The table with corners worth as much as a won game.
POSITION_WEIGHTS_Steep ==
  << << 10000, -20,  10,   5,   5,  10, -20, 10000 >>,
     << -20, -40,  -5,  -5,  -5,  -5, -40, -20 >>,
     <<  10,  -5,   5,   2,   2,   5,  -5,  10 >>,
     <<   5,  -5,   2,   0,   0,   2,  -5,   5 >>,
     <<   5,  -5,   2,   0,   0,   2,  -5,   5 >>,
     <<  10,  -5,   5,   2,   2,   5,  -5,  10 >>,
     << -20, -40,  -5,  -5,  -5,  -5, -40, -20 >>,
     << 10000, -20,  10,   5,   5,  10, -20, 10000 >> >>

POSITION_WEIGHTS ==
  << << 100, -20,  10,   5,   5,  10, -20, 100 >>,
     << -20, -40,  -5,  -5,  -5,  -5, -40, -20 >>,
     <<  10,  -5,   5,   2,   2,   5,  -5,  10 >>,
     <<   5,  -5,   2,   0,   0,   2,  -5,   5 >>,
     <<   5,  -5,   2,   0,   0,   2,  -5,   5 >>,
     <<  10,  -5,   5,   2,   2,   5,  -5,  10 >>,
     << -20, -40,  -5,  -5,  -5,  -5, -40, -20 >>,
     << 100, -20,  10,   5,   5,  10, -20, 100 >> >>

CORNERS == << <<0, 0>>, <<0, 7>>, <<7, 0>>, <<7, 7>> >>

\* The inner loop of getPositionScore (over col) for one row, from col on.
RECURSIVE PositionScoreInRow(_, _, _, _)
PositionScoreInRow(board, player, row, col) ==
  IF col >= BOARD_SIZE THEN 0
  ELSE (IF board[row][col] = player THEN POSITION_WEIGHTS[row + 1][col + 1] ELSE 0)
         + PositionScoreInRow(board, player, row, col + 1)

\* The outer loop of getPositionScore (over row), from row on.
RECURSIVE PositionScoreFromRow(_, _, _)
PositionScoreFromRow(board, player, row) ==
  IF row >= BOARD_SIZE THEN 0
  ELSE PositionScoreInRow(board, player, row, 0)
         + PositionScoreFromRow(board, player, row + 1)

getPositionScore(board, player) == PositionScoreFromRow(board, player, 0)

getCornerScore(board, player) ==
  Cardinality({i \in 1 .. Len(CORNERS) :
                 board[CORNERS[i][1]][CORNERS[i][2]] = player})

getDiscDifference(board, player, opponent) ==
  CountCells(board, player) - CountCells(board, opponent)

countPieces(board) == (BOARD_SIZE * BOARD_SIZE) - CountCells(board, EMPTY)

\* The mobility of the player alone.
MobilityTermOwn(playerMoves, opponentMoves) == playerMoves * 5

\* if (playerMoves + opponentMoves > 0) score += (playerMoves - opponentMoves) * 5
MobilityTerm(playerMoves, opponentMoves) ==
  IF playerMoves + opponentMoves > 0 THEN (playerMoves - opponentMoves) * 5 ELSE 0

\* The end-game weight from 45 pieces on.
DiscTermFrom45(discDiff, totalPieces) ==
  IF totalPieces >= 45 THEN discDiff * 10 ELSE discDiff * 2

\* if (totalPieces > 45) score += discDiff * 10 else score += discDiff * 2
DiscTerm(discDiff, totalPieces) ==
  IF totalPieces > 45 THEN discDiff * 10 ELSE discDiff * 2

evaluatePosition(board, player) ==
  LET opponent == Opponent(player)
      position == getPositionScore(board, player) - getPositionScore(board, opponent)
      playerMoves == Len(getValidMoves(board, player))
      opponentMoves == Len(getValidMoves(board, opponent))
      cornerDiff == getCornerScore(board, player) - getCornerScore(board, opponent)
      discDiff == getDiscDifference(board, player, opponent)
      totalPieces == countPieces(board)
  IN  position + MobilityTerm(playerMoves, opponentMoves) + cornerDiff * 30
        + DiscTerm(discDiff, totalPieces)

(***************************************************************************)
(* minimax.js.  Infinity stands for the JavaScript Infinity: a number      *)
(* above every score (a score is at most 10000 in absolute value).         *)
(***************************************************************************)
Infinity == 1000000
WinScore == 10000

Max(a, b) == IF a >= b THEN a ELSE b
Min(a, b) == IF a <= b THEN a ELSE b

\* A sentinel with a score of 0.
NoMoveResultZero == [row |-> -1, col |-> -1, score |-> 0]

\* return { row: -1, col: -1, score: null }
NoMoveResult == [row |-> -1, col |-> -1, score |-> Null]

\* A cutoff as soon as beta comes within 100 of alpha.
CutoffNear(alpha, beta) == beta <= alpha + 100

\* A cutoff also once alpha has reached the score of a win.
CutoffAtWin(alpha, beta) == beta <= alpha \/ alpha >= WinScore

\* A cutoff whatever the window.
CutoffAlways(alpha, beta) == TRUE

\* if (beta <= alpha) break
Cutoff(alpha, beta) == beta <= alpha

\* The static evaluation, whether the game has ended or not.
LeafValueStatic(b, gameEnded, originalPlayer) == evaluatePosition(b, originalPlayer)

\* What minimax returns when gameEnded || depth === 0.
LeafValue(b, gameEnded, originalPlayer) ==
  IF gameEnded
  THEN LET winner == getWinner(b)
       IN  IF winner = originalPlayer THEN WinScore
           ELSE IF winner = Opponent(originalPlayer) THEN -WinScore
           ELSE 0
  ELSE evaluatePosition(b, originalPlayer)

(***************************************************************************)
(* State.  board and currentPlayer are the game state; moves, passes,      *)
(* freeMoves and onRecord are history of the game played so far; call      *)
(* records the last makeMove call: its arguments, the input board read     *)
(* again after the call, whether the result shares a row object with the   *)
(* input, the board returned, and whether the call reported an error       *)
(* (makeMove has no statement that throws or returns an error value).      *)
(*                                                                         *)
(* nodesExamined, alphaBetaEnabled and debugMode are the module variables  *)
(* of minimax.js.  A search runs one call at a time: pc is "idle" outside a   *)
(* search, "call" when minimax is about to be entered with the arguments   *)
(* arg, "return" when a call of minimax has returned ret, and "done" when  *)
(* findBestMove has returned result.  root holds the locals of             *)
(* findBestMove (and the scores minimax returned to it), stack the locals  *)
(* of the calls of minimax in progress, innermost last.  first and last    *)
(* record the first and the latest search finished on the current          *)
(* position.                                                               *)
(*                                                                         *)
(* gameOver, winner, aiBlack, aiWhite, searchDepth, appAlphaBetaEnabled,   *)
(* appDebugMode, appNodesExamined and isAiThinking are the state of the    *)
(* App component (with board and currentPlayer); the three named app...    *)
(* are the state variables alphaBetaEnabled, debugMode and nodesExamined   *)
(* of App.  timers holds the callbacks given to setTimeout that have not   *)
(* run yet, oldest first; effectPending says that a render has changed a   *)
(* dependency of the effect and the effect has not run yet.                *)
(* settingsChanges and restarts count the uses of the controls.            *)
(***************************************************************************)
VARIABLES board, currentPlayer, moves, passes, freeMoves, onRecord, call,
          nodesExamined, alphaBetaEnabled, debugMode, pc, arg, ret, root, stack,
          result, first, last,
          gameOver, winner, aiBlack, aiWhite, searchDepth, appAlphaBetaEnabled,
          appDebugMode, appNodesExamined, isAiThinking, timers, effectPending,
          settingsChanges, restarts

engineVars == <<board, currentPlayer, moves, passes, freeMoves, onRecord, call>>

searchVars ==
  <<nodesExamined, alphaBetaEnabled, debugMode, pc, arg, ret, root, stack, result>>

harnessVars == <<first, last>>

appVars ==
  <<gameOver, winner, aiBlack, aiWhite, searchDepth, appAlphaBetaEnabled,
    appDebugMode, appNodesExamined, isAiThinking, timers, effectPending,
    settingsChanges, restarts>>

vars == <<engineVars, searchVars, harnessVars, appVars>>

\* A complete game from the initial position in which Black has to pass
\* after 58 moves; games are explored along it and MaxMoves moves off it.
GameRecord ==
  << <<2,3>>, <<2,2>>, <<3,2>>, <<2,4>>, <<2,5>>, <<5,3>>, <<2,1>>, <<1,3>>,
     <<5,5>>, <<4,5>>, <<5,4>>, <<4,2>>, <<5,2>>, <<4,1>>, <<3,1>>, <<1,4>>,
     <<0,4>>, <<6,3>>, <<6,2>>, <<5,1>>, <<5,0>>, <<4,0>>, <<3,0>>, <<6,5>>,
     <<1,2>>, <<0,3>>, <<0,2>>, <<6,4>>, <<7,3>>, <<7,2>>, <<7,4>>, <<7,5>>,
     <<5,6>>, <<4,6>>, <<4,7>>, <<2,0>>, <<1,0>>, <<3,5>>, <<3,6>>, <<1,5>>,
     <<2,6>>, <<0,5>>, <<7,1>>, <<0,1>>, <<7,6>>, <<5,7>>, <<0,6>>, <<0,7>>,
     <<3,7>>, <<2,7>>, <<1,6>>, <<6,0>>, <<7,0>>, <<1,1>>, <<0,0>>, <<6,1>>,
     <<6,6>>, <<1,7>>, <<6,7>>, <<7,7>> >>

\* Number of moves a game may make off GameRecord.
MaxMoves == 1

\* The move at (row, col) continues GameRecord.
IsRecordMove(row, col) ==
  onRecord /\ moves < Len(GameRecord) /\ GameRecord[moves + 1] = <<row, col>>

NoCall ==
  [row |-> -1, col |-> -1, player |-> EMPTY, board |-> initializeBoard,
   after |-> initializeBoard, shared |-> FALSE, returned |-> initializeBoard,
   reported |-> FALSE]

InitEngine ==
  /\ board = initializeBoard
  /\ currentPlayer = BLACK
  /\ moves = 0
  /\ passes = 0
  /\ freeMoves = 0
  /\ onRecord = TRUE
  /\ call = NoCall

\* One call newBoard = makeMove(board, row, col, currentPlayer) for a valid
\* move of the player to move, after which the turn goes to the opponent.
MakeMove(row, col) ==
  /\ isValidMove(board, row, col, currentPlayer)
  /\ IsRecordMove(row, col) \/ freeMoves < MaxMoves
  /\ \E heap \in {HeapOf(board)}, ref \in {RefOf(board)} :
     \E res \in {makeMoveHeap(heap, ref, row, col, currentPlayer)} :
         /\ board' = Deref(res.heap, res.board)
         /\ call' = [row |-> row, col |-> col, player |-> currentPlayer,
                     board |-> board, after |-> Deref(res.heap, ref),
                     shared |-> \E r, q \in Idx : res.board[r] = ref[q],
                     returned |-> Deref(res.heap, res.board), reported |-> FALSE]
  /\ currentPlayer' = Opponent(currentPlayer)
  /\ moves' = moves + 1
  /\ onRecord' = IsRecordMove(row, col)
  /\ freeMoves' = IF IsRecordMove(row, col) THEN freeMoves ELSE freeMoves + 1
  /\ UNCHANGED passes

\* The player to move has no valid move and the opponent has one: the turn
\* passes (the rule of the game, as the pass branch of minimax plays it).
PassTurn ==
  /\ Len(getValidMoves(board, currentPlayer)) = 0
  /\ Len(getValidMoves(board, Opponent(currentPlayer))) > 0
  /\ currentPlayer' = Opponent(currentPlayer)
  /\ passes' = passes + 1
  /\ UNCHANGED <<board, moves, freeMoves, onRecord, call>>

(***************************************************************************)
(* The search, one call or return of minimax at a time.                    *)
(***************************************************************************)
NoArg ==
  [board |-> initializeBoard, currentPlayer |-> EMPTY, depth |-> 0,
   maximizing |-> FALSE, originalPlayer |-> EMPTY, alpha |-> 0, beta |-> 0]

NoRoot ==
  [board |-> initializeBoard, player |-> EMPTY, depth |-> 0, useAlphaBeta |-> FALSE,
   validMoves |-> << >>, i |-> 0, bestMove |-> NoMoveResult, alpha |-> 0, beta |-> 0,
   scores |-> << >>]

InitSearch ==
  /\ nodesExamined = 0
  /\ alphaBetaEnabled = TRUE
  /\ debugMode = FALSE
  /\ pc = "idle"
  /\ arg = NoArg
  /\ ret = 0
  /\ root = NoRoot
  /\ stack = << >>
  /\ result = NoMoveResult

\* The arguments of the call of minimax for the move validMoves[i] of the
\* loop of findBestMove.
RootChild(r, i) ==
  [board |-> makeMove(r.board, r.validMoves[i][1], r.validMoves[i][2], r.player),
   currentPlayer |-> Opponent(r.player), depth |-> r.depth - 1,
   maximizing |-> FALSE, originalPlayer |-> r.player,
   alpha |-> r.alpha, beta |-> r.beta]

\* The call for a move with two plies taken off the depth.
ChildTwoPlies(f, i) ==
  [board |-> makeMove(f.board, f.validMoves[i][1], f.validMoves[i][2], f.currentPlayer),
   currentPlayer |-> Opponent(f.currentPlayer), depth |-> f.depth - 2,
   maximizing |-> ~f.maximizing, originalPlayer |-> f.originalPlayer,
   alpha |-> f.alpha, beta |-> f.beta]

\* The call for a move with the role of the node kept.
ChildSameRole(f, i) ==
  [board |-> makeMove(f.board, f.validMoves[i][1], f.validMoves[i][2], f.currentPlayer),
   currentPlayer |-> Opponent(f.currentPlayer), depth |-> f.depth - 1,
   maximizing |-> f.maximizing, originalPlayer |-> f.originalPlayer,
   alpha |-> f.alpha, beta |-> f.beta]

\* The arguments of the call of minimax for the move validMoves[i] of the
\* loops of minimax.
Child(f, i) ==
  [board |-> makeMove(f.board, f.validMoves[i][1], f.validMoves[i][2], f.currentPlayer),
   currentPlayer |-> Opponent(f.currentPlayer), depth |-> f.depth - 1,
   maximizing |-> ~f.maximizing, originalPlayer |-> f.originalPlayer,
   alpha |-> f.alpha, beta |-> f.beta]

\* The counter left as it is.
NodesKept == nodesExamined

\* nodesExamined = 0
NodesAtStart == 0

\* nodesExamined++
NodesAfterCall == nodesExamined + 1

\* findBestMove(b, player, depth, useAlphaBeta) up to its first call of
\* minimax, or to its return when player has no move.
FindBestMove(b, player, depth, useAlphaBeta) ==
  /\ pc = "idle"
  /\ nodesExamined' = NodesAtStart
  /\ \E validMoves \in {getValidMoves(b, player)} :
     LET r == [board |-> b, player |-> player, depth |-> depth,
               useAlphaBeta |-> useAlphaBeta, validMoves |-> validMoves, i |-> 1,
               bestMove |-> [row |-> -1, col |-> -1, score |-> -Infinity],
               alpha |-> -Infinity, beta |-> Infinity, scores |-> << >>]
     IN  IF Len(validMoves) = 0
         THEN /\ result' = NoMoveResult
              /\ pc' = "done"
              /\ root' = [r EXCEPT !.i = 0]
              /\ UNCHANGED arg
         ELSE /\ root' = r
              /\ arg' = RootChild(r, 1)
              /\ pc' = "call"
              /\ UNCHANGED result
  /\ UNCHANGED <<ret, stack>>

\* The pass with the role of the node kept.
PassCallSameRole(a) ==
  [a EXCEPT !.currentPlayer = Opponent(a.currentPlayer), !.depth = a.depth - 1]

\* The arguments of the recursive call of a node where currentPlayer has no
\* valid move: minimax(board, opponent, depth - 1, !maximizing,
\* originalPlayer, alpha, beta, moveSequence).
PassCall(a) ==
  [a EXCEPT !.currentPlayer = Opponent(a.currentPlayer),
            !.depth = a.depth - 1,
            !.maximizing = ~a.maximizing]

\* minimax from its entry to its first recursive call, or to its return at
\* a leaf.
MinimaxEnter ==
  /\ pc = "call"
  /\ nodesExamined' = NodesAfterCall
  /\ \E gameEnded \in {isGameOver(arg.board, arg.currentPlayer)},
        validMoves \in {getValidMoves(arg.board, arg.currentPlayer)} :
     LET frame == [board |-> arg.board, currentPlayer |-> arg.currentPlayer,
                   depth |-> arg.depth, maximizing |-> arg.maximizing,
                   originalPlayer |-> arg.originalPlayer,
                   alpha |-> arg.alpha, beta |-> arg.beta,
                   validMoves |-> validMoves, i |-> 1,
                   eval |-> IF arg.maximizing THEN -Infinity ELSE Infinity]
     IN  IF gameEnded \/ arg.depth = 0
         THEN /\ ret' = LeafValue(arg.board, gameEnded, arg.originalPlayer)
              /\ pc' = "return"
              /\ UNCHANGED <<arg, stack>>
         ELSE IF Len(validMoves) = 0
         THEN /\ stack' = Append(stack, frame)
              /\ arg' = PassCall(arg)
              /\ UNCHANGED <<pc, ret>>
         ELSE /\ stack' = Append(stack, frame)
              /\ arg' = Child(frame, 1)
              /\ UNCHANGED <<pc, ret>>
  /\ UNCHANGED <<alphaBetaEnabled, debugMode, root, result>>

\* minimax from the return of a recursive call to the next one, or to its
\* own return.
MinimaxResume ==
  /\ pc = "return"
  /\ stack # << >>
  /\ LET f == stack[Len(stack)]
         score == ret
         eval == IF f.maximizing THEN Max(f.eval, score) ELSE Min(f.eval, score)
         alpha == IF alphaBetaEnabled /\ f.maximizing THEN Max(f.alpha, score) ELSE f.alpha
         beta == IF alphaBetaEnabled /\ ~f.maximizing THEN Min(f.beta, score) ELSE f.beta
         cutoff == alphaBetaEnabled /\ Cutoff(alpha, beta)
         g == [f EXCEPT !.eval = eval, !.alpha = alpha, !.beta = beta, !.i = f.i + 1]
     IN  IF Len(f.validMoves) = 0
         THEN /\ stack' = SubSeq(stack, 1, Len(stack) - 1)
              /\ UNCHANGED <<pc, ret, arg>>
         ELSE IF cutoff \/ f.i = Len(f.validMoves)
         THEN /\ stack' = SubSeq(stack, 1, Len(stack) - 1)
              /\ ret' = eval
              /\ UNCHANGED <<pc, arg>>
         ELSE /\ stack' = [stack EXCEPT ![Len(stack)] = g]
              /\ arg' = Child(g, g.i)
              /\ pc' = "call"
              /\ UNCHANGED ret
  /\ UNCHANGED <<nodesExamined, alphaBetaEnabled, debugMode, root, result>>

\* A comparison that never replaces the best move.
BetterMoveNever(bestMove, row, col, score) == bestMove

\* A comparison that lets an equal score replace the best move.
BetterMoveOrEqual(bestMove, row, col, score) ==
  IF score >= bestMove.score THEN [row |-> row, col |-> col, score |-> score]
  ELSE bestMove

\* if (score > bestMove.score) bestMove = { row, col, score }
BetterMove(bestMove, row, col, score) ==
  IF score > bestMove.score THEN [row |-> row, col |-> col, score |-> score]
  ELSE bestMove

\* findBestMove from the return of a call of minimax to the next one, or
\* to its own return.
FindBestMoveResume ==
  /\ pc = "return"
  /\ stack = << >>
  /\ LET score == ret
         move == root.validMoves[root.i]
         bestMove == BetterMove(root.bestMove, move[1], move[2], score)
         alpha == IF root.useAlphaBeta THEN Max(root.alpha, score) ELSE root.alpha
         cutoff == root.useAlphaBeta /\ Cutoff(alpha, root.beta)
         r == [root EXCEPT !.bestMove = bestMove, !.alpha = alpha, !.i = root.i + 1,
                           !.scores = Append(root.scores, score)]
     IN  /\ root' = r
         /\ IF cutoff \/ root.i = Len(root.validMoves)
            THEN /\ result' = bestMove
                 /\ pc' = "done"
                 /\ UNCHANGED arg
            ELSE /\ arg' = RootChild(r, r.i)
                 /\ pc' = "call"
                 /\ UNCHANGED result
  /\ UNCHANGED <<nodesExamined, alphaBetaEnabled, debugMode, ret, stack>>

\* setAlphaBeta(enabled)
SetAlphaBeta(enabled) == alphaBetaEnabled' = enabled

\* setDebugMode(enabled)
SetDebugMode(enabled) == debugMode' = enabled

(***************************************************************************)
(* The engine alone: games from the initial position.                      *)
(***************************************************************************)
NoSearch ==
  [board |-> initializeBoard, player |-> EMPTY, depth |-> 0, useAlphaBeta |-> FALSE,
   alphaBetaEnabled |-> FALSE, debugMode |-> FALSE, validMoves |-> << >>,
   scores |-> << >>, result |-> NoMoveResult, nodes |-> 0]

InitHarness == first = NoSearch /\ last = NoSearch

\* The state of App after construction (useState), with no timer and no
\* effect to run.
InitAppState ==
  /\ gameOver = FALSE
  /\ winner = Null
  /\ aiBlack = FALSE
  /\ aiWhite = TRUE
  /\ appAlphaBetaEnabled = TRUE
  /\ appDebugMode = FALSE
  /\ appNodesExamined = 0
  /\ isAiThinking = FALSE
  /\ timers = << >>
  /\ effectPending = FALSE
  /\ settingsChanges = 0
  /\ restarts = 0

NextEngine ==
  \/ \E row \in Idx, col \in Idx :
       MakeMove(row, col) /\ UNCHANGED <<searchVars, harnessVars, appVars>>
  \/ PassTurn /\ UNCHANGED <<searchVars, harnessVars, appVars>>

\* The state after construction: useState(4) for searchDepth.
InitDefault ==
  /\ InitEngine /\ InitSearch /\ InitHarness /\ InitAppState
  /\ searchDepth = 4

SpecEngine == InitDefault /\ [][NextEngine]_vars

(***************************************************************************)
(* The search engine: findBestMove called on positions of GameRecord, the  *)
(* initial position, the position after MidGame moves and the last         *)
(* SearchTail positions, with depths up to MaxDepth (MidDepth on the       *)
(* position after MidGame moves).  On the position chosen a search         *)
(* without pruning runs to its end, then a second one with the same depth  *)
(* and pruning switched on by the argument useAlphaBeta, by setAlphaBeta,  *)
(* or by both, and with debugMode on or off.  On the last ZeroDepthTail    *)
(* positions findBestMove is also called with the depths -NegDepths .. 0.  *)
(***************************************************************************)
MaxDepth == 3
SearchTail == 8
MidGame == 20
MidDepth == 2
NegDepths == 1
ZeroDepthTail == 3

SearchHere ==
  moves = 0 \/ moves = MidGame \/ moves >= Len(GameRecord) - SearchTail

\* The next move of GameRecord is played (or the turn passes), up to the
\* position where the searches are made.
Advance ==
  /\ pc = "idle"
  /\ first = NoSearch
  /\ alphaBetaEnabled
  /\ \/ /\ moves < Len(GameRecord)
        /\ MakeMove(GameRecord[moves + 1][1], GameRecord[moves + 1][2])
        /\ IsRecordMove(GameRecord[moves + 1][1], GameRecord[moves + 1][2])
     \/ PassTurn
  /\ UNCHANGED <<searchVars, harnessVars, appVars>>

\* setAlphaBeta called between searches.
Configure(enabled) ==
  /\ SearchHere
  /\ pc = "idle"
  /\ enabled # alphaBetaEnabled
  /\ SetAlphaBeta(enabled)
  /\ UNCHANGED <<nodesExamined, debugMode, pc, arg, ret, root, stack, result>>
  /\ UNCHANGED <<engineVars, harnessVars, appVars>>

\* setDebugMode called between the first search and the second.
ConfigureDebug(enabled) ==
  /\ SearchHere
  /\ pc = "idle"
  /\ first # NoSearch
  /\ last = first
  /\ enabled # debugMode
  /\ SetDebugMode(enabled)
  /\ UNCHANGED <<nodesExamined, alphaBetaEnabled, pc, arg, ret, root, stack, result>>
  /\ UNCHANGED <<engineVars, harnessVars, appVars>>

\* findBestMove is called for the player to move.
Search(depth, useAlphaBeta) ==
  /\ SearchHere
  /\ moves = MidGame => depth <= MidDepth
  /\ depth <= 0 => moves >= Len(GameRecord) - ZeroDepthTail
  /\ \/ first = NoSearch /\ ~useAlphaBeta /\ ~alphaBetaEnabled
     \/ /\ first # NoSearch
        /\ last = first
        /\ depth = first.depth
        /\ useAlphaBeta \/ alphaBetaEnabled
  /\ FindBestMove(board, currentPlayer, depth, useAlphaBeta)
  /\ UNCHANGED <<alphaBetaEnabled, debugMode, engineVars, harnessVars, appVars>>

SearchStep ==
  /\ MinimaxEnter \/ MinimaxResume \/ FindBestMoveResume
  /\ UNCHANGED <<engineVars, harnessVars, appVars>>

\* The caller takes the result of findBestMove and getNodesExamined().
Collect ==
  /\ pc = "done"
  /\ pc' = "idle"
  /\ LET rec == [board |-> root.board, player |-> root.player, depth |-> root.depth,
                 useAlphaBeta |-> root.useAlphaBeta,
                 alphaBetaEnabled |-> alphaBetaEnabled, debugMode |-> debugMode,
                 validMoves |-> root.validMoves, scores |-> root.scores,
                 result |-> result, nodes |-> nodesExamined]
     IN  /\ last' = rec
         /\ first' = IF first = NoSearch THEN rec ELSE first
  /\ root' = NoRoot
  /\ result' = NoMoveResult
  /\ UNCHANGED <<engineVars, appVars, nodesExamined, alphaBetaEnabled, debugMode,
                 arg, ret, stack>>

NextSearch ==
  \/ Advance
  \/ \E enabled \in BOOLEAN : Configure(enabled)
  \/ \E enabled \in BOOLEAN : ConfigureDebug(enabled)
  \/ \E depth \in -NegDepths .. MaxDepth, useAlphaBeta \in BOOLEAN :
       Search(depth, useAlphaBeta)
  \/ SearchStep
  \/ Collect

SpecSearch == InitDefault /\ [][NextSearch]_vars

\* findBestMove is synchronous: once called it runs on, step after step,
\* until it returns.
SpecSearchLive == SpecSearch /\ WF_vars(SearchStep)

(***************************************************************************)
(* makeMove as a function of the module: on the positions of GameRecord it *)
(* is called with every cell and either color, valid move or not, once on  *)
(* each position; the call leaves the game where it is.                    *)
(***************************************************************************)
Apply(row, col, player) ==
  /\ call = NoCall \/ call.board # board
  /\ \E heap \in {HeapOf(board)}, ref \in {RefOf(board)} :
     \E res \in {makeMoveHeap(heap, ref, row, col, player)} :
         call' = [row |-> row, col |-> col, player |-> player,
                  board |-> board, after |-> Deref(res.heap, ref),
                  shared |-> \E r, q \in Idx : res.board[r] = ref[q],
                  returned |-> Deref(res.heap, res.board), reported |-> FALSE]
  /\ UNCHANGED <<board, currentPlayer, moves, passes, freeMoves, onRecord>>
  /\ UNCHANGED <<searchVars, harnessVars, appVars>>

NextApply ==
  \/ Advance
  \/ \E row \in Idx, col \in Idx, player \in {BLACK, WHITE} : Apply(row, col, player)

SpecApply == InitDefault /\ [][NextApply]_vars

(***************************************************************************)
(* App.jsx.  The state updates of one handler, effect or timer callback    *)
(* are applied together (one render); the effect runs after a render that  *)
(* has changed one of its dependencies, before anything else happens.      *)
(*                                                                         *)
(* The application starts with searchDepth 4.  The model starts after the  *)
(* player has moved the slider to its minimum, 2, before the first move    *)
(* (a change that has no other effect at that point), and offers the       *)
(* depths 2 .. MaxSlider.  A human plays the move of GameRecord while the  *)
(* game follows it and the first valid move otherwise.  In the last        *)
(* ControlsTail positions of a game a human may also play MaxMoves other   *)
(* moves while no AI is switched on, and the controls are used, at most    *)
(* MaxSettings and MaxRestarts times; the checkbox of the white AI is also *)
(* used before the first move of the first game, and the game is           *)
(* restarted while no AI is switched on.                                   *)
(***************************************************************************)
MinSlider == 2
MaxSlider == 3
MaxSettings == 2
MaxRestarts == 1
ControlsTail == 3

LateInGame == moves >= Len(GameRecord) - ControlsTail

\* isCurrentPlayerAI()
isCurrentPlayerAI ==
  IF currentPlayer = BLACK THEN aiBlack
  ELSE IF currentPlayer = WHITE THEN aiWhite
  ELSE FALSE

\* No handler, effect or search is running and no effect is due.
Quiet == pc = "idle" /\ ~effectPending

\* The turn goes to nextPlayer whether the game is over or not.
switchTurnNoEnd(newBoard, nextPlayer) ==
  /\ currentPlayer' = nextPlayer
  /\ UNCHANGED <<gameOver, winner>>

\* switchTurn(newBoard, nextPlayer)
switchTurn(newBoard, nextPlayer) ==
  IF isGameOver(newBoard, nextPlayer)
  THEN /\ gameOver' = TRUE
       /\ winner' = getWinner(newBoard)
       /\ UNCHANGED currentPlayer
  ELSE /\ currentPlayer' = nextPlayer
       /\ UNCHANGED <<gameOver, winner>>

\* The move a human plays by default.
DefaultMove ==
  IF /\ onRecord
     /\ moves < Len(GameRecord)
     /\ isValidMove(board, GameRecord[moves + 1][1], GameRecord[moves + 1][2], currentPlayer)
  THEN GameRecord[moves + 1]
  ELSE getValidMoves(board, currentPlayer)[1]

\* handleMove(row, col): a click on a cell where the handler does something.
handleMove(row, col) ==
  /\ Quiet
  /\ ~gameOver /\ ~isCurrentPlayerAI
  /\ isValidMove(board, row, col, currentPlayer)
  /\ \/ <<row, col>> = DefaultMove
     \/ freeMoves < MaxMoves /\ ~aiBlack /\ ~aiWhite /\ LateInGame
  /\ \E newBoard \in {makeMove(board, row, col, currentPlayer)} :
         /\ board' = newBoard
         /\ switchTurn(newBoard, Opponent(currentPlayer))
         /\ call' = [row |-> row, col |-> col, player |-> currentPlayer,
                     board |-> board, after |-> board, shared |-> FALSE,
                     returned |-> newBoard, reported |-> FALSE]
  /\ moves' = moves + 1
  /\ onRecord' = IsRecordMove(row, col)
  /\ freeMoves' = IF <<row, col>> = DefaultMove THEN freeMoves ELSE freeMoves + 1
  /\ effectPending' = TRUE
  /\ UNCHANGED <<passes, searchVars, harnessVars, aiBlack, aiWhite, searchDepth,
                 appAlphaBetaEnabled, appDebugMode, appNodesExamined, isAiThinking,
                 timers, settingsChanges, restarts>>

\* restartGame()
restartGame ==
  /\ Quiet
  /\ restarts < MaxRestarts
  /\ ~aiBlack /\ ~aiWhite
  /\ gameOver \/ LateInGame
  /\ board' = initializeBoard
  /\ currentPlayer' = BLACK
  /\ gameOver' = FALSE
  /\ winner' = Null
  /\ appNodesExamined' = 0
  /\ isAiThinking' = FALSE
  /\ effectPending' = TRUE
  /\ restarts' = restarts + 1
  /\ moves' = 0
  /\ onRecord' = TRUE
  /\ call' = NoCall
  /\ UNCHANGED <<passes, freeMoves, searchVars, harnessVars, aiBlack, aiWhite,
                 searchDepth, appAlphaBetaEnabled, appDebugMode, timers,
                 settingsChanges>>

\* What every change of a setting does besides setting it.
SettingChanged ==
  /\ Quiet
  /\ settingsChanges < MaxSettings
  /\ settingsChanges' = settingsChanges + 1
  /\ effectPending' = TRUE
  /\ UNCHANGED <<engineVars, searchVars, harnessVars, gameOver, winner,
                 appNodesExamined, isAiThinking, timers, restarts>>

\* onAiBlackChange: setAiBlack
setAiBlack ==
  /\ LateInGame
  /\ SettingChanged
  /\ aiBlack' = ~aiBlack
  /\ UNCHANGED <<aiWhite, searchDepth, appAlphaBetaEnabled, appDebugMode>>

\* onAiWhiteChange: setAiWhite
setAiWhite ==
  /\ (moves = 0 /\ settingsChanges = 0 /\ restarts = 0) \/ LateInGame
  /\ SettingChanged
  /\ aiWhite' = ~aiWhite
  /\ UNCHANGED <<aiBlack, searchDepth, appAlphaBetaEnabled, appDebugMode>>

\* onDepthChange: setSearchDepth
setSearchDepth(depth) ==
  /\ LateInGame
  /\ depth # searchDepth
  /\ SettingChanged
  /\ searchDepth' = depth
  /\ UNCHANGED <<aiBlack, aiWhite, appAlphaBetaEnabled, appDebugMode>>

\* onAlphaBetaToggle: setAlphaBetaEnabled
setAlphaBetaEnabled ==
  /\ LateInGame
  /\ SettingChanged
  /\ appAlphaBetaEnabled' = ~appAlphaBetaEnabled
  /\ UNCHANGED <<aiBlack, aiWhite, searchDepth, appDebugMode>>

\* onDebugModeToggle: setDebugMode (of App)
setAppDebugMode ==
  /\ LateInGame
  /\ SettingChanged
  /\ appDebugMode' = ~appDebugMode
  /\ UNCHANGED <<aiBlack, aiWhite, searchDepth, appAlphaBetaEnabled>>

\* The effect, up to the first call of minimax or the return of
\* findBestMove; it does nothing when the game is over or the player to
\* move is human.
AiTurnEffect ==
  /\ effectPending
  /\ pc = "idle"
  /\ IF ~gameOver /\ isCurrentPlayerAI
     THEN /\ isAiThinking' = TRUE
          /\ SetAlphaBeta(appAlphaBetaEnabled)
          /\ SetDebugMode(appDebugMode)
          /\ FindBestMove(board, currentPlayer, searchDepth, appAlphaBetaEnabled)
          /\ UNCHANGED effectPending
     ELSE /\ effectPending' = FALSE
          /\ UNCHANGED <<searchVars, isAiThinking>>
  /\ UNCHANGED <<engineVars, harnessVars, gameOver, winner, aiBlack, aiWhite,
                 searchDepth, appAlphaBetaEnabled, appDebugMode, appNodesExamined,
                 timers, settingsChanges, restarts>>

\* Math.max(800, searchDepth * 200)
thinkingDelay == Max(800, searchDepth * 200)

\* The effect from the return of findBestMove on: the node count is
\* stored and the move is given to setTimeout, or the thinking ends.
AiMoveScheduled ==
  /\ effectPending
  /\ pc = "done"
  /\ appNodesExamined' = nodesExamined
  /\ IF result.row # -1 /\ result.col # -1
     THEN /\ timers' = Append(timers, [board |-> board, row |-> result.row,
                                       col |-> result.col, player |-> currentPlayer,
                                       delay |-> thinkingDelay])
          /\ UNCHANGED isAiThinking
     ELSE /\ isAiThinking' = FALSE
          /\ UNCHANGED timers
  /\ pc' = "idle"
  /\ root' = NoRoot
  /\ result' = NoMoveResult
  /\ effectPending' = FALSE
  /\ UNCHANGED <<engineVars, harnessVars, nodesExamined, alphaBetaEnabled, debugMode,
                 arg, ret, stack, gameOver, winner, aiBlack, aiWhite, searchDepth,
                 appAlphaBetaEnabled, appDebugMode, settingsChanges, restarts>>

\* The steps of the search the effect has started.
AiSearchStep ==
  /\ effectPending
  /\ MinimaxEnter \/ MinimaxResume \/ FindBestMoveResume
  /\ UNCHANGED <<engineVars, harnessVars, appVars>>

\* The k-th pending timer can be the next to run: no timer set before it
\* is due at the same time or earlier.
CanFire(k) == \A i \in 1 .. (k - 1) : timers[i].delay > timers[k].delay

\* The callback given to setTimeout runs, with the board, the move and the
\* player of the render that set it.
TimerFires(k) ==
  /\ Quiet
  /\ k \in 1 .. Len(timers)
  /\ CanFire(k)
  /\ \E t \in {timers[k]} : \E newBoard \in {makeMove(t.board, t.row, t.col, t.player)} :
         /\ board' = newBoard
         /\ switchTurn(newBoard, Opponent(t.player))
         /\ call' = [row |-> t.row, col |-> t.col, player |-> t.player,
                     board |-> t.board, after |-> t.board, shared |-> FALSE,
                     returned |-> newBoard, reported |-> FALSE]
         /\ moves' = countPieces(newBoard) - 4
         /\ onRecord' = (t.board = board /\ IsRecordMove(t.row, t.col))
  /\ isAiThinking' = FALSE
  /\ timers' = [i \in 1 .. (Len(timers) - 1) |-> IF i < k THEN timers[i] ELSE timers[i + 1]]
  /\ effectPending' = TRUE
  /\ UNCHANGED <<passes, freeMoves, searchVars, harnessVars, aiBlack, aiWhite,
                 searchDepth, appAlphaBetaEnabled, appDebugMode, appNodesExamined,
                 settingsChanges, restarts>>

MaxTimers == 2

Init ==
  /\ InitEngine /\ InitSearch /\ InitHarness /\ InitAppState
  /\ searchDepth = MinSlider

Next ==
  \/ \E row \in Idx, col \in Idx : handleMove(row, col)
  \/ restartGame
  \/ setAiBlack
  \/ setAiWhite
  \/ \E depth \in MinSlider .. MaxSlider : setSearchDepth(depth)
  \/ setAlphaBetaEnabled
  \/ setAppDebugMode
  \/ AiTurnEffect
  \/ AiSearchStep
  \/ AiMoveScheduled
  \/ \E k \in 1 .. MaxTimers : TimerFires(k)

Spec == Init /\ [][Next]_vars

\* What the game itself does: the moves of the players, the effect with
\* its search, and the timers.
GameStep ==
  \/ \E row \in Idx, col \in Idx : handleMove(row, col) /\ <<row, col>> = DefaultMove
  \/ AiTurnEffect
  \/ AiSearchStep
  \/ AiMoveScheduled
  \/ \E k \in 1 .. MaxTimers : TimerFires(k)

\* Players move whenever they can, effects and searches run to their end,
\* timers run.
SpecLive == Spec /\ WF_vars(GameStep)

(***************************************************************************)
(* The rules of the game, stated on their own: a cell is sandwiched when   *)
(* it lies on a straight contiguous run of the opponent's discs that       *)
(* starts next to the target cell and ends on a disc of the mover.         *)
(***************************************************************************)
\* From (r, c) in direction d, the next k cells hold the opponent and the
\* cell after them holds player.
Sandwiched(b, r, c, player, d, k) ==
  LET dx == DIRECTION_OFFSETS[d][1]
      dy == DIRECTION_OFFSETS[d][2]
  IN  /\ \A j \in 1 .. k :
           /\ OnBoard(r + j * dx, c + j * dy)
           /\ b[r + j * dx][c + j * dy] = Opponent(player)
      /\ OnBoard(r + (k + 1) * dx, c + (k + 1) * dy)
      /\ b[r + (k + 1) * dx][c + (k + 1) * dy] = player

Runs == (1 .. Len(DIRECTION_OFFSETS)) \X (1 .. (BOARD_SIZE - 2))

\* The legal moves of player by the sandwich rule.
SandwichMoves(b, player) ==
  {cell \in Idx \X Idx :
     /\ b[cell[1]][cell[2]] = EMPTY
     /\ \E run \in Runs : Sandwiched(b, cell[1], cell[2], player, run[1], run[2])}

\* The cells a move of player at (r, c) sandwiches.
SandwichedCells(b, r, c, player) ==
  {cell \in Idx \X Idx :
     \E run \in Runs :
       /\ Sandwiched(b, r, c, player, run[1], run[2])
       /\ \E j \in 1 .. run[2] :
            cell = <<r + j * DIRECTION_OFFSETS[run[1]][1],
                     c + j * DIRECTION_OFFSETS[run[1]][2]>>}

SeqRange(s) == {s[i] : i \in 1 .. Len(s)}

Players == {BLACK, WHITE}

\* C1: for every board and either color, getValidMoves returns exactly the
\* empty cells that sandwich at least one straight contiguous run of the
\* opponent's discs ending on a disc of the mover, in row-major order
\* (row, then column, ascending), and isValidMove agrees with membership in
\* that list on every cell.
C1_ValidMovesAreSandwichMoves ==
  \A player \in Players :
    LET ms == getValidMoves(board, player)
    IN  /\ SeqRange(ms) = SandwichMoves(board, player)
        /\ \A i \in 1 .. (Len(ms) - 1) :
             ms[i][1] * BOARD_SIZE + ms[i][2] < ms[i + 1][1] * BOARD_SIZE + ms[i + 1][2]
        /\ \A cell \in Idx \X Idx :
             isValidMove(board, cell[1], cell[2], player) <=> cell \in SeqRange(ms)

\* A position in mid-game where the player to move has moves in several
\* rows, one of which sandwiches runs in two directions.
C1_Witness ==
  /\ moves >= 10
  /\ Len(getValidMoves(board, currentPlayer)) >= 5
  /\ \E cell \in SandwichMoves(board, currentPlayer) :
       \E r1, r2 \in Runs :
         /\ r1[1] # r2[1]
         /\ r2[2] >= 2
         /\ Sandwiched(board, cell[1], cell[2], currentPlayer, r1[1], r1[2])
         /\ Sandwiched(board, cell[1], cell[2], currentPlayer, r2[1], r2[2])

\* C2: makeMove on a move returned by getValidMoves changes exactly the
\* target cell and the sandwiched cells: each of them holds the mover's
\* color afterwards and every other cell is as it was.
C2_MakeMoveChangesTargetAndSandwiched ==
  call.row >= 0 =>
    /\ <<call.row, call.col>> \in SeqRange(getValidMoves(call.board, call.player))
    /\ \A cell \in Idx \X Idx :
         board[cell[1]][cell[2]] =
           IF cell = <<call.row, call.col>>
              \/ cell \in SandwichedCells(call.board, call.row, call.col, call.player)
           THEN call.player
           ELSE call.board[cell[1]][cell[2]]

\* A move that has flipped discs in more than one direction, one of the
\* runs being longer than one disc.
C2_Witness ==
  /\ call.row >= 0
  /\ Cardinality(SandwichedCells(call.board, call.row, call.col, call.player)) >= 4
  /\ \E r1, r2 \in Runs :
       /\ r1[1] # r2[1]
       /\ r2[2] >= 2
       /\ Sandwiched(call.board, call.row, call.col, call.player, r1[1], r1[2])
       /\ Sandwiched(call.board, call.row, call.col, call.player, r2[1], r2[2])

\* C3: makeMove does not mutate its input board (read after the call, the
\* input is cell-for-cell what it was before) and the board it returns
\* shares no row object with the input: for the call the game has just
\* made, and for a call on the current board with any cell and any color.
C3_MakeMoveLeavesInputAlone ==
  /\ call.row >= 0 => (call.after = call.board /\ ~call.shared)
  /\ \A cell \in Idx \X Idx, player \in Players :
       LET res == makeMoveHeap(HeapOf(board), RefOf(board), cell[1], cell[2], player)
       IN  /\ Deref(res.heap, RefOf(board)) = board
           /\ \A r, q \in Idx : res.board[r] # RefOf(board)[q]

\* A call of makeMove that has returned a board different from its input.
C3_Witness ==
  /\ call.row >= 0
  /\ board # call.board
  /\ Cardinality(SandwichedCells(call.board, call.row, call.col, call.player)) >= 2

\* C4: every cell is Empty, Dark or Light; each legal move raises the number
\* of occupied cells by exactly one, so along any game (passes included) the
\* number of discs is 4 plus the number of moves made, and never above 64.
C4_DiscCount ==
  /\ \A cell \in Idx \X Idx : board[cell[1]][cell[2]] \in {EMPTY, BLACK, WHITE}
  /\ countPieces(board) = 4 + moves
  /\ countPieces(board) <= BOARD_SIZE * BOARD_SIZE
  /\ call.row >= 0 => countPieces(board) = countPieces(call.board) + 1

\* A full board at the end of a game in which a turn was passed.
C4_Witness ==
  /\ passes > 0
  /\ call.row >= 0
  /\ countPieces(board) = BOARD_SIZE * BOARD_SIZE

\* C5: isGameOver is true exactly when neither color has a legal move, and
\* its value does not depend on the currentPlayer argument.
C5_GameOverIffNoMoves ==
  /\ \A player \in Players :
       isGameOver(board, player) <=>
         \A q \in Players : Len(getValidMoves(board, q)) = 0
  /\ isGameOver(board, BLACK) <=> isGameOver(board, WHITE)

\* A position where the player to move has no move and the opponent has
\* one, so that the game is not over.
C5_Witness ==
  /\ Len(getValidMoves(board, currentPlayer)) = 0
  /\ Len(getValidMoves(board, Opponent(currentPlayer))) > 0
  /\ ~isGameOver(board, currentPlayer)

\* A position where neither color has a move.
C5_WitnessOver ==
  /\ moves > 0
  /\ isGameOver(board, currentPlayer)

(***************************************************************************)
(* Claims about findBestMove.                                              *)
(***************************************************************************)
\* Pruning switched on, or off, both by the argument and by setAlphaBeta.
Pruned(s) == s.useAlphaBeta /\ s.alphaBetaEnabled
Unpruned(s) == ~s.useAlphaBeta /\ ~s.alphaBetaEnabled

\* Two searches have finished on the same board, color and depth: first
\* without pruning, last with pruning.
Compared ==
  /\ first # NoSearch
  /\ last # NoSearch
  /\ Unpruned(first)
  /\ Pruned(last)
  /\ last.board = first.board
  /\ last.player = first.player
  /\ last.depth = first.depth

\* C6: for the same board, color and depth >= 1, findBestMove with pruning
\* enabled returns the same move (row, col) and the same score as
\* findBestMove with pruning disabled.
C6_PruningKeepsMoveAndScore ==
  (Compared /\ first.depth >= 1) =>
    /\ last.result.row = first.result.row
    /\ last.result.col = first.result.col
    /\ last.result.score = first.result.score

\* Both searches have finished on the initial position at a depth where
\* pruning has cut nodes off, and have returned a move.
C6_Witness ==
  /\ Compared
  /\ moves = 0
  /\ first.depth >= 2
  /\ last.nodes < first.nodes
  /\ first.result.row >= 0

\* C7: for the same board, color and depth > 1, the node counter after a
\* search with pruning enabled is at most the node counter after a search
\* with pruning disabled.
C7_PruningExaminesNoMoreNodes ==
  (Compared /\ first.depth > 1) => last.nodes <= first.nodes

\* Both searches have finished on a position late in the game and pruning
\* has examined strictly fewer nodes.
C7_Witness ==
  /\ Compared
  /\ moves > 0
  /\ first.depth > 1
  /\ last.nodes < first.nodes
  /\ Len(first.validMoves) >= 2

\* C9: when the color has no legal move on the board (the opponent may
\* have one), findBestMove returns row -1, col -1 and a null score, calls
\* minimax not once, and leaves the node counter at 0.
C9_NoMoveSentinel ==
  /\ (pc = "done" /\ Len(getValidMoves(root.board, root.player)) = 0) =>
       /\ result.row = -1 /\ result.col = -1 /\ result.score = Null
       /\ nodesExamined = 0
       /\ root.scores = << >>
       /\ stack = << >>
  /\ (last # NoSearch /\ Len(getValidMoves(last.board, last.player)) = 0) =>
       /\ last.result.row = -1 /\ last.result.col = -1 /\ last.result.score = Null
       /\ last.nodes = 0
       /\ last.scores = << >>

\* findBestMove has returned for a player with no move whose opponent has
\* one, so that the game is not over.
C9_Witness ==
  /\ pc = "done"
  /\ Len(getValidMoves(root.board, root.player)) = 0
  /\ Len(getValidMoves(root.board, Opponent(root.player))) > 0
  /\ ~isGameOver(root.board, root.player)
  /\ root.depth >= 1

\* The first index of s holding the greatest element of s.
FirstMax(s) ==
  CHOOSE k \in 1 .. Len(s) :
    /\ \A j \in 1 .. Len(s) : s[j] <= s[k]
    /\ \A j \in 1 .. (k - 1) : s[j] < s[k]

\* C10: findBestMove returns the root move with the strictly greatest
\* score minimax returned; among root moves with the same maximal score it
\* returns the first in row-major order, and the score it returns is the
\* score of the move it returns.
C10_FirstBestRootMove ==
  (last # NoSearch /\ Len(last.validMoves) > 0) =>
    /\ Len(last.scores) = Len(last.validMoves)
    /\ last.validMoves = getValidMoves(last.board, last.player)
    /\ LET k == FirstMax(last.scores)
       IN  /\ last.result.row = last.validMoves[k][1]
           /\ last.result.col = last.validMoves[k][2]
           /\ last.result.score = last.scores[k]

\* A search has returned where several root moves had the maximal score
\* and another root move a smaller one.
C10_Witness ==
  /\ last # NoSearch
  /\ Len(last.validMoves) >= 3
  /\ \E i, j, l \in 1 .. Len(last.scores) :
       /\ i < j
       /\ last.scores[i] = last.scores[j]
       /\ \A m \in 1 .. Len(last.scores) : last.scores[m] <= last.scores[i]
       /\ last.scores[l] < last.scores[i]

(***************************************************************************)
(* Claims about the running game.                                          *)
(***************************************************************************)
\* The game is not over and the player to move has no legal move while
\* the opponent has one.
MustPass ==
  /\ ~gameOver
  /\ Len(getValidMoves(board, currentPlayer)) = 0
  /\ Len(getValidMoves(board, Opponent(currentPlayer))) > 0

\* C8: in the running game, whenever the player to move has no legal move
\* but the opponent has one, the turn passes to the opponent (so the game
\* does not stay with a player who cannot move), and every game in which
\* the players move whenever they can eventually reaches gameOver.
C8_TurnPassesAndGameEnds ==
  /\ MustPass ~> ~MustPass
  /\ ~gameOver ~> gameOver

\* C11: whenever the color has at least one legal move on the board and
\* depth >= 1, findBestMove returns a move that is an element of
\* getValidMoves(board, color), never the no-move sentinel, with a finite,
\* non-null score.
C11_ReturnsLegalMove ==
  (last # NoSearch /\ last.depth >= 1
     /\ Len(getValidMoves(last.board, last.player)) > 0) =>
    /\ <<last.result.row, last.result.col>> \in SeqRange(getValidMoves(last.board, last.player))
    /\ last.result.score # Null
    /\ last.result.score > -Infinity
    /\ last.result.score < Infinity

\* findBestMove has returned at depth 1 from the initial board for Black.
C11_Witness ==
  /\ last # NoSearch
  /\ last.board = initializeBoard
  /\ last.player = BLACK
  /\ last.depth = 1
  /\ <<last.result.row, last.result.col>> \in {<<2, 3>>, <<3, 2>>, <<4, 5>>, <<5, 4>>}

(***************************************************************************)
(* Claims about minimax, the recursive evaluator.                          *)
(***************************************************************************)
\* Number of discs of color on b.
Discs(b, color) == Cardinality({cell \in Idx \X Idx : b[cell[1]][cell[2]] = color})

\* Neither color has a legal move on b.
Terminal(b) == \A player \in Players : SandwichMoves(b, player) = {}

\* The value of a finished game for rootColor.
TerminalValue(b, rootColor) ==
  IF Discs(b, rootColor) > Discs(b, Opponent(rootColor)) THEN 10000
  ELSE IF Discs(b, rootColor) < Discs(b, Opponent(rootColor)) THEN -10000
  ELSE 0

\* C12: when minimax is entered on a board where neither color has a legal
\* move, it returns +10000 if the disc-count winner is the root color,
\* -10000 if it is the root color's opponent and 0 on equal counts, at
\* every remaining depth, without a recursive call.
C12_TerminalValueAtEveryDepth ==
  [][(pc = "call" /\ Terminal(arg.board)) =>
       /\ pc' = "return"
       /\ ret' = TerminalValue(arg.board, arg.originalPlayer)
       /\ stack' = stack]_vars

\* minimax has returned from a call on a finished game with remaining
\* depth above 0, with a value that is not the static evaluation.
C12_Witness ==
  /\ pc = "return"
  /\ Terminal(arg.board)
  /\ arg.depth > 0
  /\ ret = TerminalValue(arg.board, arg.originalPlayer)
  /\ ret # evaluatePosition(arg.board, arg.originalPlayer)

\* The node minimax is entered on must pass: the game is not over and the
\* color to move has no legal move.
PassingNode(a) ==
  /\ ~Terminal(a.board)
  /\ SandwichMoves(a.board, a.currentPlayer) = {}

\* C13: at remaining depth > 0, when the color to move has no legal move but
\* the opponent has one, minimax calls itself on the same board with the
\* opponent to move, depth reduced by 1, the maximizing role flipped and
\* alpha and beta unchanged, enumerates no move, and returns the value of
\* that call.
C13_PassTurn ==
  [][/\ (pc = "call" /\ arg.depth > 0 /\ PassingNode(arg)) =>
          /\ pc' = "call"
          /\ arg' = [board |-> arg.board,
                      currentPlayer |-> Opponent(arg.currentPlayer),
                      depth |-> arg.depth - 1,
                      maximizing |-> ~arg.maximizing,
                      originalPlayer |-> arg.originalPlayer,
                      alpha |-> arg.alpha, beta |-> arg.beta]
          /\ Len(stack') = Len(stack) + 1
          /\ stack'[Len(stack')].validMoves = << >>
          /\ nodesExamined' = nodesExamined + 1
     /\ (pc = "return" /\ stack # << >> /\ PassingNode(stack[Len(stack)])) =>
          /\ pc' = "return"
          /\ ret' = ret
          /\ stack' = SubSeq(stack, 1, Len(stack) - 1)
          /\ nodesExamined' = nodesExamined]_vars

\* The call made by a passing node at remaining depth > 0 has returned a
\* value to it.
C13_Witness ==
  /\ pc = "return"
  /\ stack # << >>
  /\ PassingNode(stack[Len(stack)])
  /\ stack[Len(stack)].depth > 0
  /\ stack[Len(stack)].validMoves = << >>

\* The value of the position b for rootColor without looking ahead: the
\* terminal constant if the game is over on b, the static evaluation
\* otherwise.
ImmediateValue(b, rootColor) ==
  IF Terminal(b) THEN TerminalValue(b, rootColor) ELSE evaluatePosition(b, rootColor)

\* C14: findBestMove called with depth <= 0 on a board where the color has
\* a legal move returns, and the position after each root move is scored
\* immediately by the static evaluation (or the terminal constant if it is
\* terminal), with one call of minimax per root move and no further ply.
C14_ShallowAtDepthZero ==
  (last # NoSearch /\ last.depth <= 0 /\ Len(last.validMoves) > 0) =>
    /\ Len(last.scores) = Len(last.validMoves)
    /\ \A i \in 1 .. Len(last.validMoves) :
         last.scores[i] =
           ImmediateValue(makeMove(last.board, last.validMoves[i][1],
                                   last.validMoves[i][2], last.player),
                          last.player)
    /\ last.nodes = Len(last.validMoves)

(***************************************************************************)
(* Claims about makeMove called outside its precondition.                  *)
(***************************************************************************)
\* The last call of makeMove was made with a move that is not legal.
IllegalCall ==
  /\ call.player # EMPTY
  /\ <<call.row, call.col>> \notin SandwichMoves(call.board, call.player)

\* C15: makeMove called with a move that fails isValidMove (an occupied
\* target cell, or an empty cell with no sandwiched ray) reports a
\* precondition violation and produces no board in which a disc was placed
\* or flipped.
C15_IllegalMoveReported ==
  IllegalCall =>
    /\ ~isValidMove(call.board, call.row, call.col, call.player)
    /\ call.reported
    /\ call.returned = call.board

(***************************************************************************)
(* Claims about evaluatePosition.                                          *)
(***************************************************************************)
\* C16: for every board and color, evaluatePosition(board, color) =
\* -evaluatePosition(board, opponent(color)) exactly.
C16_EvaluationAntisymmetric ==
  \A color \in Players :
    evaluatePosition(board, color) = -evaluatePosition(board, Opponent(color))

\* A position with a corner taken, unequal mobility and a nonzero
\* evaluation.
C16_Witness ==
  /\ evaluatePosition(board, BLACK) # 0
  /\ \E corner \in SeqRange(CORNERS) : board[corner[1]][corner[2]] # EMPTY
  /\ Cardinality(SandwichMoves(board, BLACK)) # Cardinality(SandwichMoves(board, WHITE))
  /\ Discs(board, BLACK) # Discs(board, WHITE)

\* Sum of the position weights of the cells in cells that hold color.
RECURSIVE WeightSum(_, _, _)
WeightSum(b, color, cells) ==
  IF cells = {} THEN 0
  ELSE LET cell == CHOOSE x \in cells : TRUE
       IN  (IF b[cell[1]][cell[2]] = color
            THEN POSITION_WEIGHTS[cell[1] + 1][cell[2] + 1] ELSE 0)
           + WeightSum(b, color, cells \ {cell})

\* Number of corners holding color.
CornersOf(b, color) ==
  Cardinality({cell \in {<<0, 0>>, <<0, 7>>, <<7, 0>>, <<7, 7>>} : b[cell[1]][cell[2]] = color})

\* The evaluation as the sum of its four terms.
EvaluationFormula(b, own) ==
  LET opp == Opponent(own)
      occupied == Discs(b, BLACK) + Discs(b, WHITE)
      k == IF occupied >= 46 THEN 10 ELSE 2
  IN  (WeightSum(b, own, Idx \X Idx) - WeightSum(b, opp, Idx \X Idx))
      + 5 * (Cardinality(SandwichMoves(b, own)) - Cardinality(SandwichMoves(b, opp)))
      + 30 * (CornersOf(b, own) - CornersOf(b, opp))
      + k * (Discs(b, own) - Discs(b, opp))

\* C17: for every board and perspective color, evaluatePosition equals
\* (weight sum of own discs minus that of opposing discs) + 5 * (own legal
\* moves minus opposing legal moves) + 30 * (own corners minus opposing
\* corners) + k * (own discs minus opposing discs), with k = 10 when more
\* than 45 cells are occupied and k = 2 when 45 or fewer are.
C17_EvaluationFormula ==
  \A color \in Players : evaluatePosition(board, color) = EvaluationFormula(board, color)

\* A position with exactly 46 occupied cells and unequal disc counts: the
\* first where k = 10.
C17_Witness ==
  /\ Discs(board, BLACK) + Discs(board, WHITE) = 46
  /\ Discs(board, BLACK) # Discs(board, WHITE)
  /\ evaluatePosition(board, currentPlayer) = EvaluationFormula(board, currentPlayer)

(***************************************************************************)
(* Claims about the opening position.                                      *)
(***************************************************************************)
\* C20: on the initial board with Black to move, getValidMoves returns
\* exactly the four moves (2,3), (3,2), (4,5), (5,4), in that order.
C20_OpeningMoves ==
  (moves = 0 /\ currentPlayer = BLACK) =>
    getValidMoves(board, currentPlayer) = << <<2, 3>>, <<3, 2>>, <<4, 5>>, <<5, 4>> >>

\* The initial board, Black to move: the two White discs on (3,3) and
\* (4,4), the two Black discs on (3,4) and (4,3), and four moves offered.
C20_Witness ==
  /\ moves = 0
  /\ currentPlayer = BLACK
  /\ board[3][3] = WHITE /\ board[4][4] = WHITE
  /\ board[3][4] = BLACK /\ board[4][3] = BLACK
  /\ Discs(board, EMPTY) = 60
  /\ Len(getValidMoves(board, currentPlayer)) = 4

(***************************************************************************)
(* Claims about the node counter and the toggles.                          *)
(***************************************************************************)
\* C18: findBestMove sets the node counter to 0 on entry, every invocation
\* of minimax adds exactly one to it and nothing else changes it, so that
\* after findBestMove returns the counter is the number of invocations of
\* minimax made during that call only.
C18_NodeCounter ==
  [][/\ (pc = "idle" /\ pc' # "idle") => nodesExamined' = 0
     /\ (pc = "call") => nodesExamined' = nodesExamined + 1
     /\ (pc # "call" /\ ~(pc = "idle" /\ pc' # "idle")) =>
          nodesExamined' = nodesExamined]_vars

\* A second search on the same position has returned with a counter
\* above 0 and below the counter the first search left behind.
C18_Witness ==
  /\ pc = "done"
  /\ first # NoSearch
  /\ first.nodes > 0
  /\ nodesExamined > 0
  /\ nodesExamined < first.nodes

\* C19: the move and the score findBestMove returns depend on the board,
\* the color and the depth only: two calls with the same three arguments
\* return the same move and score, whatever debugMode, the pruning toggles
\* (the argument useAlphaBeta and setAlphaBeta) and the node counter before
\* the call.
C19_ResultIgnoresToggles ==
  (/\ first # NoSearch
   /\ last # NoSearch
   /\ last.board = first.board
   /\ last.player = first.player
   /\ last.depth = first.depth) =>
    /\ last.result.row = first.result.row
    /\ last.result.col = first.result.col
    /\ last.result.score = first.result.score

\* Two searches have returned on the same position at the same depth: the
\* first with the counter at 0 before it, debugMode off and no pruning, the
\* second with the counter above 0 before it, debugMode on and pruning
\* enabled by setAlphaBeta only, which examined fewer nodes.
C19_Witness ==
  /\ first # NoSearch
  /\ last # first
  /\ last.board = first.board /\ last.player = first.player /\ last.depth = first.depth
  /\ ~first.debugMode /\ last.debugMode
  /\ Unpruned(first)
  /\ last.alphaBetaEnabled /\ ~last.useAlphaBeta
  /\ first.nodes > 0
  /\ last.nodes < first.nodes
  /\ last.result.row >= 0

\* The last call of makeMove applied Black's move (2,3) to the initial
\* board.
OpeningCall ==
  /\ call.player = BLACK
  /\ call.row = 2 /\ call.col = 3
  /\ Discs(call.board, EMPTY) = 60
  /\ call.board[3][3] = WHITE /\ call.board[4][4] = WHITE
  /\ call.board[3][4] = BLACK /\ call.board[4][3] = BLACK

\* C21: applying Black's move (2,3) to the initial board places Black at
\* (2,3), flips exactly the cell (3,3) from White to Black, leaves every
\* other cell unchanged, and the resulting score is 4 Black discs and 1
\* White disc.
C21_OpeningMoveApplied ==
  OpeningCall =>
    /\ call.returned[2][3] = BLACK
    /\ call.returned[3][3] = BLACK
    /\ \A cell \in (Idx \X Idx) \ {<<2, 3>>, <<3, 3>>} :
         call.returned[cell[1]][cell[2]] = call.board[cell[1]][cell[2]]
    /\ calculateScore(call.returned) = [black |-> 4, white |-> 1]

\* Black's move (2,3) has been applied to the initial board and the game
\* stands on the board returned.
C21_Witness ==
  /\ OpeningCall
  /\ moves = 1
  /\ board = call.returned
  /\ currentPlayer = WHITE

(***************************************************************************)
(* Claims about where cutoffs happen.                                      *)
(***************************************************************************)
\* The board after player has moved to (r, c), by the rule of the game.
Played(b, r, c, player) ==
  LET flipped == SandwichedCells(b, r, c, player)
  IN  [x \in Idx |-> [y \in Idx |->
         IF <<x, y>> = <<r, c>> \/ <<x, y>> \in flipped THEN player ELSE b[x][y]]]

\* Number of nodes of the full depth-limited minimax tree below a node:
\* FullTree counts the node on b with toMove to move and depth plies left,
\* FullForest the nodes reached by the moves in cells.
RECURSIVE FullTree(_, _, _), FullForest(_, _, _, _)
FullTree(b, toMove, depth) ==
  LET own == SandwichMoves(b, toMove)
  IN  IF depth = 0 THEN 1
      ELSE IF own # {} THEN 1 + FullForest(b, toMove, depth, own)
      ELSE IF SandwichMoves(b, Opponent(toMove)) = {} THEN 1
      ELSE 1 + FullTree(b, Opponent(toMove), depth - 1)

FullForest(b, toMove, depth, cells) ==
  IF cells = {} THEN 0
  ELSE LET cell == CHOOSE x \in cells : TRUE
           Below(nb) == FullTree(nb, Opponent(toMove), depth - 1)
       IN  Eval(Below, Played(b, cell[1], cell[2], toMove))
           + FullForest(b, toMove, depth, cells \ {cell})

\* C22: the argument useAlphaBeta of findBestMove alone decides whether
\* cutoffs happen in that search.  Stated for the value false: whatever
\* was last given to setAlphaBeta, every legal move of every non-terminal
\* node above the depth limit is evaluated, so the node counter equals the
\* size of the full depth-limited minimax tree.
C22_ArgumentDecidesPruning ==
  (/\ pc = "idle"
   /\ last # NoSearch
   /\ last.depth >= 1
   /\ ~last.useAlphaBeta) =>
    last.nodes = FullForest(last.board, last.player, last.depth,
                            SandwichMoves(last.board, last.player))

\* With no pruning switched on at all the counter is the size of the full
\* tree.
FullTreeWhenUnpruned ==
  (/\ pc = "idle"
   /\ last # NoSearch
   /\ last.depth >= 1
   /\ Unpruned(last)) =>
    last.nodes = FullForest(last.board, last.player, last.depth,
                            SandwichMoves(last.board, last.player))

(***************************************************************************)
(* Claims about timers, restarts and settings in the running game.         *)
(***************************************************************************)
\* The game has been restarted and no move of the new game has been made:
\* the initial layout, Black to move, not over.
NewGame ==
  /\ restarts > 0
  /\ moves = 0
  /\ Discs(board, EMPTY) = 60
  /\ board[3][3] = WHITE /\ board[4][4] = WHITE
  /\ board[3][4] = BLACK /\ board[4][3] = BLACK
  /\ currentPlayer = BLACK
  /\ ~gameOver

\* C23: after restartGame the board is the initial layout with Black to
\* move and gameOver false, and it stays so until a move of the new game
\* is made: whatever changes the board, the player to move or gameOver of
\* the new game is a legal move of Black on the initial board, never a
\* timer set before the restart.
C23_RestartIsolated ==
  [][/\ (restarts' = restarts + 1) => NewGame'
     /\ (NewGame /\ <<board, currentPlayer, gameOver>>' # <<board, currentPlayer, gameOver>>) =>
          \E cell \in SandwichMoves(board, BLACK) :
            /\ board' = Played(board, cell[1], cell[2], BLACK)
            /\ currentPlayer' = WHITE
            /\ ~gameOver']_vars

\* The sequence s without its k-th element.
Without(s, k) == [i \in 1 .. (Len(s) - 1) |-> IF i < k THEN s[i] ELSE s[i + 1]]

\* C24: for each AI turn at most one move is computed and applied, also
\* when a setting changes while an AI move timer is pending: a move is
\* given to setTimeout only while no timer is pending, and the timer that
\* runs applies its move to the current board for the player to move, after
\* which the turn has switched (or the game is over).
C24_OneMovePerAiTurn ==
  [][/\ (Len(timers') > Len(timers)) => timers = << >>
     /\ (Len(timers') < Len(timers)) =>
          \E k \in 1 .. Len(timers) :
            /\ timers' = Without(timers, k)
            /\ timers[k].board = board
            /\ timers[k].player = currentPlayer
            /\ board' = Played(board, timers[k].row, timers[k].col, currentPlayer)
            /\ gameOver' \/ currentPlayer' = Opponent(currentPlayer)]_vars

\* The color with strictly more discs on b, Null on equal counts.
DiscWinner(b) ==
  IF Discs(b, BLACK) > Discs(b, WHITE) THEN BLACK
  ELSE IF Discs(b, WHITE) > Discs(b, BLACK) THEN WHITE
  ELSE Null

C26_RootNeverCutsOff ==
  /\ pc = "done" => Len(root.scores) = Cardinality(SandwichMoves(root.board, root.player))
  /\ last # NoSearch =>
       /\ Len(last.scores) = Cardinality(SandwichMoves(last.board, last.player))
       /\ Len(last.scores) = Len(last.validMoves)

\* A search with both pruning switches on has returned where a root move
\* before the last one had the score of a win.
C26_Witness ==
  /\ last # NoSearch
  /\ Pruned(last)
  /\ Len(last.scores) >= 2
  /\ \E i \in 1 .. (Len(last.scores) - 1) : last.scores[i] = WinScore

\* The node x (the arguments of a call, or the frame of a call in
\* progress) is maximizing exactly when the root color is to move.
RoleMatches(x) ==
  /\ x.maximizing <=> (x.currentPlayer = root.player)
  /\ x.originalPlayer = root.player

\* C27: in every invocation of minimax made during a findBestMove call the
\* node is maximizing if and only if the color to move is the root color,
\* also after pass steps, and every value returned is from the root
\* color's point of view: a leaf returns the value of its board for the
\* root color, a node with moves returns the greatest value of its moves
\* when the root color is to move and the least otherwise.
C27_RoleFollowsColor ==
  [][/\ (pc = "call") =>
          /\ RoleMatches(arg)
          /\ \A k \in 1 .. Len(stack) : RoleMatches(stack[k])
          /\ (pc' = "return") => ret' = ImmediateValue(arg.board, root.player)
     /\ (/\ pc = "return"
         /\ Len(stack') < Len(stack)
         /\ stack[Len(stack)].validMoves # << >>) =>
          IF stack[Len(stack)].currentPlayer = root.player
          THEN ret' = Max(stack[Len(stack)].eval, ret)
          ELSE ret' = Min(stack[Len(stack)].eval, ret)]_vars

\* minimax has been entered from a passing node with the root color to
\* move and the maximizing role.
C27_Witness ==
  /\ pc = "call"
  /\ Len(stack) >= 1
  /\ stack[Len(stack)].validMoves = << >>
  /\ arg.currentPlayer = root.player
  /\ arg.maximizing

\* Sum of the absolute values of the position weights of cells.
RECURSIVE AbsWeightSum(_)
AbsWeightSum(cells) ==
  IF cells = {} THEN 0
  ELSE LET cell == CHOOSE x \in cells : TRUE
           w == POSITION_WEIGHTS[cell[1] + 1][cell[2] + 1]
       IN  (IF w < 0 THEN -w ELSE w) + AbsWeightSum(cells \ {cell})

\* No board has an evaluation above this in absolute value: every weight
\* counted for one side, 64 moves, 4 corners and 64 discs of difference.
EvaluationBound ==
  AbsWeightSum(Idx \X Idx) + 5 * (BOARD_SIZE * BOARD_SIZE) + 30 * Len(CORNERS)
    + 10 * (BOARD_SIZE * BOARD_SIZE)

\* v is at most bound in absolute value.
Within(v, bound) == -bound <= v /\ v <= bound

\* C28: for every board and color -10000 < evaluatePosition(board, color)
\* < 10000, so a non-terminal leaf is never scored as high as a terminal
\* win or as low as a terminal loss, and every value returned by the
\* search lies in [-10000, 10000].
C28_EvaluationBelowWin ==
  /\ EvaluationBound < 10000
  /\ \A color \in Players : Within(evaluatePosition(board, color), EvaluationBound)
  /\ pc = "call" =>
       \A color \in Players : Within(evaluatePosition(arg.board, color), EvaluationBound)
  /\ pc = "return" => Within(ret, 10000)
  /\ (pc = "return" /\ ~Terminal(arg.board) /\ arg.depth = 0) => Within(ret, 9999)
  /\ (last # NoSearch /\ last.validMoves # << >>) =>
       /\ Within(last.result.score, 10000)
       /\ \A i \in 1 .. Len(last.scores) : Within(last.scores[i], 10000)

\* minimax has returned the static evaluation of a leaf where the game is
\* not over and a corner is taken.
C28_Witness ==
  /\ pc = "return"
  /\ arg.depth = 0
  /\ ~Terminal(arg.board)
  /\ ret = evaluatePosition(arg.board, root.player)
  /\ ret # 0
  /\ \E corner \in SeqRange(CORNERS) : arg.board[corner[1]][corner[2]] # EMPTY

\* C29: every call of findBestMove terminates, for every board, color and
\* integer depth, and for depth >= 1 the remaining depth passed to minimax
\* always lies in 0 .. depth - 1: a call k calls below the root call has
\* depth - 1 - k plies left, so no position more than depth plies below
\* the root is visited.
C29_SearchTerminates ==
  /\ []((pc = "call" /\ root.depth >= 1) =>
          /\ arg.depth \in 0 .. (root.depth - 1)
          /\ arg.depth = root.depth - 1 - Len(stack))
  /\ (pc = "call") ~> (pc = "done")

\* A search of three plies or more has returned after calls of minimax
\* below its root calls.
C29_Witness ==
  /\ pc = "done"
  /\ root.depth >= 3
  /\ nodesExamined > Len(root.validMoves)
  /\ Len(root.scores) = Len(root.validMoves)

(***************************************************************************)
(* Claims about handleMove.                                                *)
(***************************************************************************)
\* C30: handleMove(row, col) changes the game state only when the game is
\* not over, the player to move is not AI-controlled and the move is legal
\* for the player to move on the current board; then the board becomes the
\* board after that move and the turn goes to the opponent, or the game
\* ends.  While the game is over or an AI-controlled player is to move,
\* the board, the player to move, gameOver and winner change only by a
\* restart or a timer, never by a click.
C30_HandleMoveFrame ==
  [][/\ \A row \in Idx, col \in Idx :
          handleMove(row, col) =>
            /\ ~gameOver
            /\ ~(currentPlayer = BLACK /\ aiBlack)
            /\ ~(currentPlayer = WHITE /\ aiWhite)
            /\ <<row, col>> \in SandwichMoves(board, currentPlayer)
            /\ board' = Played(board, row, col, currentPlayer)
            /\ IF Terminal(board')
               THEN /\ gameOver'
                    /\ winner' = DiscWinner(board')
                    /\ currentPlayer' = currentPlayer
               ELSE /\ ~gameOver'
                    /\ winner' = winner
                    /\ currentPlayer' = Opponent(currentPlayer)
     /\ (/\ gameOver \/ (currentPlayer = BLACK /\ aiBlack) \/ (currentPlayer = WHITE /\ aiWhite)
         /\ <<board, currentPlayer, gameOver, winner>>' # <<board, currentPlayer, gameOver, winner>>) =>
          restarts' # restarts \/ Len(timers') < Len(timers)]_vars

\* A human has made a move on the current board in a game without AI: the
\* board is the board makeMove returned and the opponent is to move.
C30_Witness ==
  /\ ~aiBlack /\ ~aiWhite
  /\ timers = << >>
  /\ moves > 0
  /\ call.player # EMPTY
  /\ board = call.returned
  /\ board # call.board
  /\ ~gameOver
  /\ currentPlayer = Opponent(call.player)

====
